---- MODULE Spec2Model ----
(***************************************************************************)
(* Model of the quiz generator's parsing and dispatch core:                *)
(*   src/generator.py          the generator app.py imports                *)
(*   src/prompts/generator.py  the second generator kept under prompts/    *)
(* Python values are tagged records, strings are sequences of one-char     *)
(* strings, dicts are functions from key names to values.                  *)
(***************************************************************************)
EXTENDS Integers, Sequences, FiniteSets, TLC

VARIABLES
    raw_list,        \* _normalize_questions: the parsed list handed in
    requested_type,  \* _normalize_questions: its requested_type argument
    norm_pc,         \* "idle" | "ready" | "done"
    norm_out,        \* [err, list]: what _normalize_questions returned or raised
    norm_again,      \* [err, list]: the same for a second call on norm_out.list
    text,            \* _extract_json_from_text: the model's reply handed in
    ext_root,        \* [done, err, s]: result of src/generator.py's extractor
    ext_prompts,     \* [done, err, s]: result of src/prompts/generator.py's
    impl,            \* which generate_questions_from_text runs: "root" | "prompts"
    source_text,     \* the request
    qtype,
    n,
    difficulty,
    template_files,  \* the types whose template file exists in the prompts directory
    pc,              \* "idle" | "start" | "call" | "llm" | "renumber" | "done"
    pending,         \* the sub-generations still to run, [qtype, n] each
    calls,           \* the LLM calls made so far, [qtype, n] each: template used, count
    replies,         \* the LLM's replies so far
    parts,           \* the lists the finished sub-generations returned
    result           \* [status, err, list]: "pending" | "returned" | "raised"

normVars == <<raw_list, requested_type, norm_pc, norm_out, norm_again>>
extVars == <<text, ext_root, ext_prompts>>
reqVars == <<impl, source_text, qtype, n, difficulty, template_files>>
runVars == <<pc, pending, calls, replies, parts, result>>
genVars == <<reqVars, runVars>>
vars == <<normVars, extVars, genVars>>

(***************************************************************************)
(* Bounds of the model.                                                    *)
(***************************************************************************)
MaxItems == 3   \* longest parsed list in the id family
MaxId == 3      \* largest source-supplied id
MaxOpts == 5    \* longest source-supplied options list
MaxText == 5    \* longest reply, in characters
MaxChunks == 5  \* longest reply, in chunks, of the object family
MaxN == 10      \* largest requested count

(***************************************************************************)
(* Python values.                                                          *)
(***************************************************************************)
Null == [t |-> "null"]
IntV(num) == [t |-> "int", i |-> num]
BoolV(x) == [t |-> "bool", b |-> x]
StrV(chars) == [t |-> "str", s |-> chars]
ListV(elems) == [t |-> "list", l |-> elems]
DictV(fn) == [t |-> "dict", d |-> fn]

EmptyDict == [k \in {} |-> Null]

IsStr(v) == v.t = "str"
IsList(v) == v.t = "list"
IsDict(v) == v.t = "dict"
\* isinstance(x, int): bool is a subclass of int in Python
IsInt(v) == v.t \in {"int", "bool"}
IntVal(v) == IF v.t = "int" THEN v.i ELSE IF v.b THEN 1 ELSE 0

\* bool(x)
Truthy(v) ==
    CASE v.t = "null" -> FALSE
      [] v.t = "int" -> v.i # 0
      [] v.t = "bool" -> v.b
      [] v.t = "str" -> Len(v.s) > 0
      [] v.t = "list" -> Len(v.l) > 0
      [] v.t = "dict" -> DOMAIN v.d # {}

\* d[k] = v
Put(d, k, v) == [x \in (DOMAIN d) \cup {k} |-> IF x = k THEN v ELSE d[x]]
\* d.setdefault(k, v)
SetDefault(d, k, v) == IF k \in DOMAIN d THEN d ELSE Put(d, k, v)

(***************************************************************************)
(* str methods.                                                            *)
(***************************************************************************)
Whitespace == {" ", "\n", "\t"}
UpperLetters == <<"A","B","C","D","E","F","G","H","I","J","K","L","M",
                  "N","O","P","Q","R","S","T","U","V","W","X","Y","Z">>
LowerLetters == <<"a","b","c","d","e","f","g","h","i","j","k","l","m",
                  "n","o","p","q","r","s","t","u","v","w","x","y","z">>

LowerChar(c) ==
    IF \E k \in 1..26 : UpperLetters[k] = c
    THEN LowerLetters[CHOOSE k \in 1..26 : UpperLetters[k] = c]
    ELSE c
\* str.lower()
StrLower(s) == [k \in 1..Len(s) |-> LowerChar(s[k])]

RECURSIVE LStrip(_)
LStrip(s) == IF s # <<>> /\ Head(s) \in Whitespace THEN LStrip(Tail(s)) ELSE s
RECURSIVE RStrip(_)
RStrip(s) ==
    IF s # <<>> /\ s[Len(s)] \in Whitespace
    THEN RStrip(SubSeq(s, 1, Len(s) - 1)) ELSE s
\* str.strip()
StrStrip(s) == RStrip(LStrip(s))

\* str.splitlines(): cut at each newline, no empty last line
RECURSIVE SplitLinesFrom(_, _)
SplitLinesFrom(s, cur) ==
    IF s = <<>> THEN (IF cur = <<>> THEN <<>> ELSE <<cur>>)
    ELSE IF Head(s) = "\n" THEN <<cur>> \o SplitLinesFrom(Tail(s), <<>>)
    ELSE SplitLinesFrom(Tail(s), Append(cur, Head(s)))
SplitLines(s) == SplitLinesFrom(s, <<>>)

Digits == <<"1","2","3","4","5","6","7","8","9">>

\* string literals of the source
S_mcq == <<"m","c","q">>
S_tf == <<"t","f">>
S_full == <<"f","u","l","l">>
S_mixed == <<"m","i","x","e","d">>
S_medium == <<"m","e","d","i","u","m">>
S_A == <<"A">>
S_true == <<"t","r","u","e">>
S_t == <<"t">>
S_yes == <<"y","e","s">>
S_Option == <<"O","p","t","i","o","n"," ">>

(***************************************************************************)
(* src/generator.py: _normalize_questions, first loop (one element).       *)
(***************************************************************************)
ConcreteOrMixed == {S_mcq, S_tf, S_full, S_mixed}

\* lines 154-155: a type is filled in only when the key is missing
EnsureType(q, req) ==
    IF "type" \in DOMAIN q THEN q
    ELSE Put(q, "type", StrV(IF req \in ConcreteOrMixed THEN req ELSE S_mcq))

\* line 157: the default is computed before setdefault looks at the key, and
\* .strip() on a truthy value that is no string raises AttributeError
QuestionRaises(q) ==
    "question" \in DOMAIN q /\ Truthy(q["question"]) /\ ~IsStr(q["question"])
EnsureQuestion(q) == SetDefault(q, "question", StrV(<<>>))

\* line 159
EnsureDifficulty(q) == SetDefault(q, "difficulty", StrV(S_medium))

\* line 165: [o.strip() for o in opts.splitlines() if o.strip()]
RECURSIVE StrippedLines(_)
StrippedLines(ls) ==
    IF ls = <<>> THEN <<>>
    ELSE (IF StrStrip(Head(ls)) # <<>> THEN <<StrV(StrStrip(Head(ls)))>> ELSE <<>>)
         \o StrippedLines(Tail(ls))

\* lines 170-171: while len(opts) < 4: opts.append(f"Option {len(opts)+1}")
RECURSIVE PadOptions(_)
PadOptions(opts) ==
    IF Len(opts) < 4
    THEN PadOptions(Append(opts, StrV(Append(S_Option, Digits[Len(opts) + 1]))))
    ELSE opts

\* the slice left out
TruncateOptionsNoSlice(opts) == opts

\* line 172: opts[:4]
TruncateOptions(opts) == SubSeq(opts, 1, IF Len(opts) < 4 THEN Len(opts) ELSE 4)

\* lines 162-172
McqOptions(q) ==
    LET got == IF "options" \in DOMAIN q /\ Truthy(q["options"])
               THEN q["options"] ELSE ListV(<<>>)
        split == IF IsStr(got) THEN ListV(StrippedLines(SplitLines(got.s))) ELSE got
        aslist == IF IsList(split) THEN split.l ELSE <<>>
    IN  ListV(TruncateOptions(PadOptions(aslist)))

\* the "is None" test left out
McqAnswerMissingOnly(q) ==
    IF "answer" \notin DOMAIN q THEN StrV(S_A) ELSE q["answer"]

\* lines 173-175
McqAnswer(q) ==
    IF "answer" \notin DOMAIN q \/ q["answer"].t = "null"
    THEN StrV(S_A) ELSE q["answer"]

\* .strip() left out
TfAnswerNoStrip(q) ==
    LET a == IF "answer" \in DOMAIN q THEN q["answer"] ELSE BoolV(TRUE)
    IN  IF IsStr(a)
        THEN BoolV(StrLower(a.s) \in {S_true, S_t, S_yes})
        ELSE BoolV(Truthy(a))

\* the else branch of line 183 left out: only strings can be true
TfAnswerStringsOnly(q) ==
    LET a == IF "answer" \in DOMAIN q THEN q["answer"] ELSE BoolV(TRUE)
    IN  IF IsStr(a)
        THEN BoolV(StrLower(StrStrip(a.s)) \in {S_true, S_t, S_yes})
        ELSE BoolV(FALSE)

\* lines 178-183
TfAnswer(q) ==
    LET a == IF "answer" \in DOMAIN q THEN q["answer"] ELSE BoolV(TRUE)
    IN  IF IsStr(a)
        THEN BoolV(StrLower(StrStrip(a.s)) \in {S_true, S_t, S_yes})
        ELSE BoolV(Truthy(a))

\* lines 161-175
EnsureMcq(q) ==
    IF q["type"] = StrV(S_mcq)
    THEN Put(Put(q, "options", McqOptions(q)), "answer", McqAnswer(q))
    ELSE q

\* lines 176-183
EnsureTf(q) ==
    IF q["type"] = StrV(S_tf) THEN Put(q, "answer", TfAnswer(q)) ELSE q

\* line 185
EnsureExplanation(q) == SetDefault(q, "explanation", StrV(<<>>))

\* lines 152-186, for one dict
NormalizeItem(q, req) ==
    EnsureExplanation(EnsureTf(EnsureMcq(
        EnsureDifficulty(EnsureQuestion(EnsureType(q, req))))))

\* lines 149-186: non-dict elements are skipped
RECURSIVE FirstLoop(_, _)
FirstLoop(raw, req) ==
    IF raw = <<>> THEN <<>>
    ELSE (IF IsDict(Head(raw)) THEN <<NormalizeItem(Head(raw).d, req)>> ELSE <<>>)
         \o FirstLoop(Tail(raw), req)

FirstLoopRaises(raw) ==
    \E k \in 1..Len(raw) : IsDict(raw[k]) /\ QuestionRaises(raw[k].d)

(***************************************************************************)
(* src/generator.py: _normalize_questions, second loop (ids).              *)
(***************************************************************************)
\* line 190
NeedsId(item) == "id" \notin DOMAIN item \/ ~IsInt(item["id"])

\* lines 196-197
Watermark(item, next_id) ==
    IF IntVal(item["id"]) >= next_id THEN IntVal(item["id"]) + 1 ELSE next_id

\* lines 188-199
RECURSIVE AssignIds(_, _)
AssignIds(out, next_id) ==
    IF out = <<>> THEN <<>>
    ELSE IF NeedsId(Head(out))
         THEN <<Put(Head(out), "id", IntV(next_id))>>
              \o AssignIds(Tail(out), next_id + 1)
         ELSE <<Head(out)>> \o AssignIds(Tail(out), Watermark(Head(out), next_id))

NoOut == [err |-> "", list |-> <<>>]

\* lines 144-200: the returned list, or the exception that leaves the function
normalize_questions(raw, req) ==
    IF FirstLoopRaises(raw)
    THEN [err |-> "AttributeError", list |-> <<>>]
    ELSE [err |-> "", list |-> AssignIds(FirstLoop(raw, req), 1)]

(***************************************************************************)
(* Inputs of the Normalizer.                                               *)
(***************************************************************************)
Absent == [t |-> "absent"]
\* a dict holding the keys of f whose value is given
Build(f) == DictV([k \in {x \in DOMAIN f : f[x] # Absent} |-> f[k]])

S_essay == <<"e","s","s","a","y">>
RequestedTypes == {S_mcq, S_tf, S_full, S_mixed, S_essay}

\* id family: only the ids vary
IdItems ==
    {IntV(7), DictV(EmptyDict), DictV([id |-> StrV(<<"1">>)]), DictV([id |-> BoolV(TRUE)])}
    \cup {DictV([id |-> IntV(k)]) : k \in 1..MaxId}
IdLists == UNION {[1..k -> IdItems] : k \in 0..MaxItems}

\* field family: one element, its type, options, answer and question vary
OptList(k) == ListV([j \in 1..k |-> StrV(<<"o", Digits[j]>>)])
TypeChoices ==
    {Absent, Null, StrV(S_mcq), StrV(S_tf), StrV(S_full), StrV(S_mixed), StrV(S_essay)}
OptionChoices ==
    {Absent, Null, IntV(5), BoolV(TRUE), StrV(<<>>),
     StrV(<<"a", "\n", " ", "b", " ", "\n", "\n", "c">>),
     StrV(<<"a", "\n", "b", "\n", "c", "\n", "d", "\n", "e", "\n">>),
     DictV([answer |-> Null])}
    \cup {OptList(k) : k \in 0..MaxOpts}
AnswerChoices ==
    {Absent, Null, BoolV(TRUE), BoolV(FALSE), IntV(0), IntV(1),
     StrV(<<"A">>), StrV(<<"D">>), StrV(<<"E">>), StrV(<<"a">>), StrV(<<>>),
     StrV(<<" ", "Y", "e", "s", " ">>), StrV(<<"T", "R", "U", "E">>),
     StrV(<<"t">>), StrV(<<"T", "\n">>), StrV(<<"y">>), StrV(<<"n", "o">>),
     StrV(<<"t", "r", " ", "u", "e">>), StrV(<<"f", "a", "l", "s", "e">>)}
QuestionChoices == {Absent, Null, StrV(<<" ", "q", " ">>), IntV(5)}
FieldLists ==
    {<<Build([type |-> ty, options |-> op, answer |-> an, question |-> qu])>> :
        ty \in TypeChoices, op \in OptionChoices,
        an \in AnswerChoices, qu \in QuestionChoices}

NormIdle ==
    /\ raw_list = <<>>
    /\ requested_type = S_mcq
    /\ norm_pc = "idle"
    /\ norm_out = NoOut
    /\ norm_again = NoOut

NormInit ==
    /\ raw_list \in IdLists \cup FieldLists
    /\ requested_type \in RequestedTypes
    /\ norm_pc = "ready"
    /\ norm_out = NoOut
    /\ norm_again = NoOut

\* one call of _normalize_questions(raw_list, requested_type)
Normalize ==
    /\ norm_pc = "ready"
    /\ norm_out' = normalize_questions(raw_list, requested_type)
    /\ norm_pc' = "done"
    /\ UNCHANGED <<raw_list, requested_type, norm_again, extVars, genVars>>

\* the list a call returned, as the argument of another call: its records are
\* dicts again
AsArgument(records) == [k \in 1..Len(records) |-> DictV(records[k])]

\* a second call, _normalize_questions(out, requested_type), on the list the
\* first call returned
Renormalize ==
    /\ norm_pc = "done"
    /\ norm_out.err = ""
    /\ norm_again' = normalize_questions(AsArgument(norm_out.list), requested_type)
    /\ norm_pc' = "again"
    /\ UNCHANGED <<raw_list, requested_type, norm_out, extVars, genVars>>


(***************************************************************************)
(* src/generator.py: _extract_json_from_text.                              *)
(***************************************************************************)
\* str.find(c): the first index of c, 0 when there is none
Find(s, c) ==
    IF \E k \in 1..Len(s) : s[k] = c
    THEN CHOOSE k \in 1..Len(s) : s[k] = c /\ \A m \in 1..(k - 1) : s[m] # c
    ELSE 0
\* the last index of c, 0 when there is none
FindLast(s, c) ==
    IF \E k \in 1..Len(s) : s[k] = c
    THEN CHOOSE k \in 1..Len(s) : s[k] = c /\ \A m \in (k + 1)..Len(s) : s[m] # c
    ELSE 0

\* lines 64-71, 76-82, 100-106: the counting loop from index i with the depth so
\* far; the index at which the depth is back to zero, 0 when the text ends first
RECURSIVE ScanClose(_, _, _, _, _)
ScanClose(s, i, depth, open, close) ==
    IF i > Len(s) THEN 0
    ELSE IF s[i] = open THEN ScanClose(s, i + 1, depth + 1, open, close)
    ELSE IF s[i] = close
         THEN (IF depth - 1 = 0 THEN i ELSE ScanClose(s, i + 1, depth - 1, open, close))
    ELSE ScanClose(s, i + 1, depth, open, close)

\* lines 90-91, 95-96: while j < len(text) and text[j].isspace(): j += 1
RECURSIVE SkipSpace(_, _)
SkipSpace(s, j) ==
    IF j <= Len(s) /\ s[j] \in Whitespace THEN SkipSpace(s, j + 1) ELSE j

\* lines 88-111: the objects collected so far, j the index after the last one
RECURSIVE CollectObjs(_, _, _)
CollectObjs(s, j, objs) ==
    LET comma == SkipSpace(s, j)
        brace == SkipSpace(s, comma + 1)
        close == ScanClose(s, brace, 0, "{", "}")
    IN  IF comma <= Len(s) /\ s[comma] = "," /\ brace <= Len(s) /\ s[brace] = "{"
           /\ close # 0
        THEN CollectObjs(s, close + 1, Append(objs, SubSeq(s, brace, close)))
        ELSE objs

\* line 113: ",".join(objs)
RECURSIVE JoinComma(_)
JoinComma(objs) ==
    IF Len(objs) = 0 THEN <<>>
    ELSE IF Len(objs) = 1 THEN objs[1]
    ELSE objs[1] \o <<",">> \o JoinComma(Tail(objs))

\* re.search(r'(\[.*\])', text, flags=re.S) and its {...} twin: the first opener
\* through the last closer, [found, s]
GreedySpan(s, open, close) ==
    LET a == Find(s, open)
        b == FindLast(s, close)
    IN  IF a # 0 /\ b > a THEN [found |-> TRUE, s |-> SubSeq(s, a, b)]
        ELSE [found |-> FALSE, s |-> <<>>]

\* lines 115-123
LastResort(s) ==
    IF GreedySpan(s, "[", "]").found THEN GreedySpan(s, "[", "]").s
    ELSE IF GreedySpan(s, "{", "}").found THEN GreedySpan(s, "{", "}").s
    ELSE s

\* lines 72-114, and what follows when no object closes
ObjectBranch(s) ==
    LET obj_start == Find(s, "{")
        i == IF obj_start = 0 THEN 0 ELSE ScanClose(s, obj_start, 0, "{", "}")
        objs == CollectObjs(s, i + 1, <<SubSeq(s, obj_start, i)>>)
    IN  IF i = 0 THEN LastResort(s)
        ELSE IF Len(objs) > 1 THEN <<"[">> \o JoinComma(objs) \o <<"]">>
        ELSE SubSeq(s, obj_start, i)

\* lines 59-123
extract_json_root(raw) ==
    LET s == StrStrip(raw)
        array_start == Find(s, "[")
        i == IF array_start = 0 THEN 0 ELSE ScanClose(s, array_start, 0, "[", "]")
    IN  IF i # 0 THEN SubSeq(s, array_start, i) ELSE ObjectBranch(s)

(***************************************************************************)
(* src/prompts/generator.py: _extract_json_from_text.                      *)
(***************************************************************************)
\* lines 47-55: [err, s]
extract_json_prompts(raw) ==
    IF GreedySpan(raw, "[", "]").found
    THEN [err |-> "", s |-> GreedySpan(raw, "[", "]").s]
    ELSE IF GreedySpan(raw, "{", "}").found
    THEN [err |-> "", s |-> GreedySpan(raw, "{", "}").s]
    ELSE [err |-> "ValueError", s |-> <<>>]

(***************************************************************************)
(* Inputs of the Extractor.                                                *)
(***************************************************************************)
TextChars == {"[", "]", "{", "}", ",", " ", "a"}
CharTexts == UNION {[1..k -> TextChars] : k \in 0..MaxText}
Chunks ==
    {<<"{", "a", "}">>, <<"{", "{", "}", "}">>, <<"{", "[", "]", "}">>,
     <<",">>, <<" ">>, <<"a">>, <<"{">>}
RECURSIVE Flatten(_)
Flatten(cs) == IF cs = <<>> THEN <<>> ELSE Head(cs) \o Flatten(Tail(cs))
ChunkTexts == {Flatten(cs) : cs \in UNION {[1..k -> Chunks] : k \in 0..MaxChunks}}

ExtNone == [done |-> FALSE, err |-> "", s |-> <<>>]

ExtIdle ==
    /\ text = <<>>
    /\ ext_root = [done |-> TRUE, err |-> "", s |-> <<>>]
    /\ ext_prompts = [done |-> TRUE, err |-> "", s |-> <<>>]

ExtInit ==
    /\ text \in CharTexts \cup ChunkTexts
    /\ ext_root = ExtNone
    /\ ext_prompts = ExtNone

\* src/generator.py: _extract_json_from_text(text)
ExtractRoot ==
    /\ ~ext_root.done
    /\ ext_root' = [done |-> TRUE, err |-> "", s |-> extract_json_root(text)]
    /\ UNCHANGED <<text, ext_prompts, normVars, genVars>>

\* src/prompts/generator.py: _extract_json_from_text(text)
ExtractPrompts ==
    /\ ~ext_prompts.done
    /\ ext_prompts' = [done |-> TRUE, err |-> extract_json_prompts(text).err,
                       s |-> extract_json_prompts(text).s]
    /\ UNCHANGED <<text, ext_root, normVars, genVars>>


(***************************************************************************)
(* The LLM and the template store, as the generators see them.             *)
(***************************************************************************)
S_auto == <<"a","u","t","o">>
S_MCQ == <<"M","C","Q">>
ConcreteTypes == {S_mcq, S_tf, S_full}

Pending == [status |-> "pending", err |-> "", list |-> <<>>]
Returned(l) == [status |-> "returned", err |-> "", list |-> l]
Raised(e) == [status |-> "raised", err |-> e, list |-> <<>>]

D_empty == DictV(EmptyDict)
D_id5 == DictV([id |-> IntV(5)])
ReplyLists ==
    {<<>>, <<D_empty>>, <<D_id5>>, <<D_empty, D_empty>>, <<IntV(7), D_empty>>,
     <<D_id5, D_empty>>}
\* what the reply's text parses to, when it parses
ParsedValues ==
    {ListV(l) : l \in ReplyLists} \cup {D_empty, IntV(3), StrV(<<"a", "b">>)}
\* the call raises; the text holds no bracket; the text is no JSON; the text parses
Replies ==
    {[kind |-> k, v |-> Null] : k \in {"gateway_error", "no_json", "bad_json"}}
    \cup {[kind |-> "value", v |-> x] : x \in ParsedValues}

(***************************************************************************)
(* src/prompts/generator.py: generate_questions_from_text.                 *)
(***************************************************************************)
Max(a, b) == IF a >= b THEN a ELSE b

\* lines 95-97
mcq_n(k) == Max(1, k \div 2)
tf_n(k) == Max(0, k \div 4)
full_n(k) == Max(0, k - mcq_n(k) - tf_n(k))

\* lines 99-104: one sub-generation per count above zero, in this order
MixedPlan(k) ==
    (IF mcq_n(k) > 0 THEN <<[qtype |-> S_mcq, n |-> mcq_n(k)]>> ELSE <<>>)
    \o (IF tf_n(k) > 0 THEN <<[qtype |-> S_tf, n |-> tf_n(k)]>> ELSE <<>>)
    \o (IF full_n(k) > 0 THEN <<[qtype |-> S_full, n |-> full_n(k)]>> ELSE <<>>)

\* q.setdefault("id", i) in place of the assignment
RenumberSetDefault(out) == [k \in 1..Len(out) |-> SetDefault(out[k], "id", IntV(k))]

\* lines 106-107: for i, q in enumerate(out, start=1): q["id"] = i
Renumber(out) == [k \in 1..Len(out) |-> Put(out[k], "id", IntV(k))]

\* lines 129-137: the defaults of element number i; dict(item) raises for what
\* is no mapping and the element is skipped (an empty list makes an empty dict)
RECURSIVE PromptsDefaults(_, _, _, _)
PromptsDefaults(parsed, i, qt, diff) ==
    IF parsed = <<>> THEN <<>>
    ELSE LET item == Head(parsed)
             asdict == IF IsDict(item) THEN item.d ELSE EmptyDict
             ok == IsDict(item) \/ (IsList(item) /\ Len(item.l) = 0)
             filled == SetDefault(SetDefault(SetDefault(asdict, "id", IntV(i)),
                           "type", StrV(qt)),
                           "difficulty", StrV(IF diff # S_auto THEN diff ELSE S_medium))
         IN  (IF ok THEN <<filled>> ELSE <<>>)
             \o PromptsDefaults(Tail(parsed), i + 1, qt, diff)

\* the reply's error is dropped and the sub-generation yields an empty list
PromptsSubResultSwallow(r, qt, diff) ==
    IF r.kind # "value" THEN [err |-> "", list |-> <<>>]
    ELSE IF IsDict(r.v) THEN [err |-> "", list |-> PromptsDefaults(<<r.v>>, 1, qt, diff)]
    ELSE IF IsList(r.v) THEN [err |-> "", list |-> PromptsDefaults(r.v.l, 1, qt, diff)]
    ELSE IF IsStr(r.v) THEN [err |-> "", list |-> <<>>]
    ELSE [err |-> "TypeError", list |-> <<>>]

\* lines 121-138, from the reply on: [err, list]. call_llm raises what the client
\* raises; parse_llm_json raises ValueError; enumerate raises TypeError for a
\* number; a string is walked character by character and every one is skipped
PromptsSubResult(r, qt, diff) ==
    IF r.kind = "gateway_error" THEN [err |-> "LLMError", list |-> <<>>]
    ELSE IF r.kind \in {"no_json", "bad_json"} THEN [err |-> "ValueError", list |-> <<>>]
    ELSE IF IsDict(r.v) THEN [err |-> "", list |-> PromptsDefaults(<<r.v>>, 1, qt, diff)]
    ELSE IF IsList(r.v) THEN [err |-> "", list |-> PromptsDefaults(r.v.l, 1, qt, diff)]
    ELSE IF IsStr(r.v) THEN [err |-> "", list |-> <<>>]
    ELSE [err |-> "TypeError", list |-> <<>>]

IsMixed == StrLower(qtype) = S_mixed

\* lines 88-116: the empty-text return, the mixed split, the unknown type
PromptsStart ==
    /\ impl = "prompts" /\ pc = "start"
    /\ IF StrStrip(source_text) = <<>>
       THEN /\ result' = Returned(<<>>)
            /\ pc' = "done"
            /\ UNCHANGED pending
       ELSE IF IsMixed
       THEN /\ pending' = MixedPlan(n)
            /\ pc' = "call"
            /\ UNCHANGED result
       ELSE IF StrLower(qtype) \notin ConcreteTypes
       THEN /\ result' = Raised("ValueError")
            /\ pc' = "done"
            /\ UNCHANGED pending
       ELSE /\ pending' = <<[qtype |-> StrLower(qtype), n |-> n]>>
            /\ pc' = "call"
            /\ UNCHANGED result
    /\ UNCHANGED <<calls, replies, parts, reqVars, normVars, extVars>>

\* lines 118-121 of the next sub-generation: load_prompt, then call_llm is entered
PromptsCall ==
    /\ impl = "prompts" /\ pc = "call"
    /\ IF Head(pending).qtype \notin template_files
       THEN /\ result' = Raised("FileNotFoundError")
            /\ pc' = "done"
            /\ UNCHANGED calls
       ELSE /\ calls' = Append(calls, Head(pending))
            /\ pc' = "llm"
            /\ UNCHANGED result
    /\ UNCHANGED <<pending, replies, parts, reqVars, normVars, extVars>>

\* lines 121-138 of the sub-generation, and lines 100-104 taking its list
PromptsReply(r) ==
    /\ impl = "prompts" /\ pc = "llm"
    /\ replies' = Append(replies, r)
    /\ LET sub == PromptsSubResult(r, Head(pending).qtype, difficulty)
       IN  IF sub.err # ""
           THEN /\ result' = Raised(sub.err)
                /\ pc' = "done"
                /\ UNCHANGED <<pending, parts>>
           ELSE /\ parts' = Append(parts, sub.list)
                /\ pending' = Tail(pending)
                /\ IF IsMixed
                   THEN /\ pc' = IF Tail(pending) = <<>> THEN "renumber" ELSE "call"
                        /\ UNCHANGED result
                   ELSE /\ pc' = "done"
                        /\ result' = Returned(sub.list)
    /\ UNCHANGED <<calls, reqVars, normVars, extVars>>

\* lines 105-108
PromptsRenumber ==
    /\ impl = "prompts" /\ pc = "renumber"
    /\ result' = Returned(Renumber(Flatten(parts)))
    /\ pc' = "done"
    /\ UNCHANGED <<pending, calls, replies, parts, reqVars, normVars, extVars>>

(***************************************************************************)
(* src/generator.py: generate_questions_from_text.                         *)
(***************************************************************************)
\* lines 209-210: the file "{qtype}_template.txt" when it exists, else the
\* built-in prompt of that type, else the built-in mcq prompt
RootTemplate(qt, files) ==
    IF qt \in files \/ qt \in ConcreteTypes THEN qt ELSE S_mcq

\* lines 229-253, from the reply on
RootResult(r, qt) ==
    IF r.kind # "value" THEN Raised("RuntimeError")
    ELSE IF IsDict(r.v)
    THEN (IF normalize_questions(<<r.v>>, qt).err # ""
          THEN Raised(normalize_questions(<<r.v>>, qt).err)
          ELSE Returned(normalize_questions(<<r.v>>, qt).list))
    ELSE IF IsList(r.v)
    THEN (IF normalize_questions(r.v.l, qt).err # ""
          THEN Raised(normalize_questions(r.v.l, qt).err)
          ELSE Returned(normalize_questions(r.v.l, qt).list))
    ELSE Raised("RuntimeError")

\* lines 208-224: the prompt is built and the LLM is called
RootCall ==
    /\ impl = "root" /\ pc = "start"
    /\ calls' = Append(calls, [qtype |-> RootTemplate(qtype, template_files), n |-> n])
    /\ pc' = "llm"
    /\ UNCHANGED <<pending, replies, parts, result, reqVars, normVars, extVars>>

\* lines 225-256
RootReply(r) ==
    /\ impl = "root" /\ pc = "llm"
    /\ replies' = Append(replies, r)
    /\ result' = RootResult(r, qtype)
    /\ pc' = "done"
    /\ UNCHANGED <<pending, calls, parts, reqVars, normVars, extVars>>

(***************************************************************************)
(* Requests.                                                               *)
(***************************************************************************)
SourceTexts == {<<>>, <<" ", "\n">>, <<"a">>, <<" ", "a", "b", " ">>}
QTypes == {S_mcq, S_tf, S_full, S_mixed, S_MCQ, S_essay}
TemplateStores == {{}, ConcreteTypes, ConcreteTypes \cup {S_mixed}}

GenIdle ==
    /\ impl = "none" /\ source_text = <<>> /\ qtype = S_mcq /\ n = 1
    /\ difficulty = S_medium /\ template_files = {}
    /\ pc = "idle" /\ pending = <<>> /\ calls = <<>> /\ replies = <<>>
    /\ parts = <<>> /\ result = Pending

GenInit ==
    /\ impl \in {"root", "prompts"}
    /\ source_text \in SourceTexts
    /\ qtype \in QTypes
    /\ n \in 0..MaxN
    /\ difficulty \in {S_medium, S_auto}
    /\ template_files \in TemplateStores
    /\ pc = "start" /\ pending = <<>> /\ calls = <<>> /\ replies = <<>>
    /\ parts = <<>> /\ result = Pending

(***************************************************************************)
(* Specifications.                                                         *)
(***************************************************************************)
NormNext == Normalize \/ Renormalize
InitNorm == NormInit /\ ExtIdle /\ GenIdle
SpecNorm == InitNorm /\ [][NormNext]_vars

ExtNext == ExtractRoot \/ ExtractPrompts
InitExtract == NormIdle /\ ExtInit /\ GenIdle
SpecExtract == InitExtract /\ [][ExtNext]_vars

GenNext ==
    \/ PromptsStart
    \/ PromptsCall
    \/ \E r \in Replies : PromptsReply(r)
    \/ PromptsRenumber
    \/ RootCall
    \/ \E r \in Replies : RootReply(r)
InitGen == NormIdle /\ ExtIdle /\ GenInit
SpecGen == InitGen /\ [][GenNext]_vars

(***************************************************************************)
(* Claims about the Normalizer (SpecNorm).                                 *)
(***************************************************************************)
NormReturned == norm_pc = "done" /\ norm_out.err = ""
\* the dicts of the input, in order: record k of the result comes from SrcDicts[k]
SrcDicts == SelectSeq(raw_list, IsDict)
Src(k) == SrcDicts[k].d
Out(k) == norm_out.list[k]
OutRange == 1..Len(norm_out.list)
Concrete == {StrV(S_mcq), StrV(S_tf), StrV(S_full)}
Has(q, key) == key \in DOMAIN q

\* the source-supplied integer ids are pairwise distinct and non-decreasing in
\* list order, elements without an integer id anywhere between them
SourceIdsIncreasing ==
    \A i, j \in 1..Len(SrcDicts) :
        (i < j /\ ~NeedsId(Src(i)) /\ ~NeedsId(Src(j)))
            => IntVal(Src(i)["id"]) < IntVal(Src(j)["id"])

\* C1: when the source-supplied integer ids are pairwise distinct and
\* non-decreasing in list order, the ids of the returned records are pairwise
\* distinct.
C1_UniqueIds ==
    (NormReturned /\ SourceIdsIncreasing) =>
        \A i, j \in OutRange :
            i < j => IntVal(Out(i)["id"]) # IntVal(Out(j)["id"])

\* C2: every returned record has type mcq, tf or full: its own type when that
\* is one of the three, otherwise the requested type, or mcq when the requested
\* type is mixed.
C2_TypeConcrete ==
    NormReturned =>
        \A k \in OutRange :
            /\ Out(k)["type"] \in Concrete
            /\ (Has(Src(k), "type") /\ Src(k)["type"] \in Concrete)
                   => Out(k)["type"] = Src(k)["type"]
            /\ (~(Has(Src(k), "type") /\ Src(k)["type"] \in Concrete)
                    /\ requested_type \in {S_mcq, S_tf, S_full})
                   => Out(k)["type"] = StrV(requested_type)
            /\ (~(Has(Src(k), "type") /\ Src(k)["type"] \in Concrete)
                    /\ requested_type = S_mixed)
                   => Out(k)["type"] = StrV(S_mcq)

\* C3: every returned record of type mcq carries a list of exactly 4 options,
\* whatever the source supplied as options.
C3_McqFourOptions ==
    NormReturned =>
        \A k \in OutRange :
            Out(k)["type"] = StrV(S_mcq) =>
                /\ Has(Out(k), "options")
                /\ IsList(Out(k)["options"])
                /\ Len(Out(k)["options"].l) = 4

\* an mcq record whose source options was a newline-delimited string of more
\* than 4 lines: split, then truncated
C3_Witness ==
    /\ NormReturned
    /\ \E k \in OutRange :
        /\ Out(k)["type"] = StrV(S_mcq)
        /\ Has(Src(k), "options") /\ IsStr(Src(k)["options"])
        /\ Len(SplitLines(Src(k)["options"].s)) > 4
        /\ Len(Out(k)["options"].l) = 4

Letters == {StrV(<<"A">>), StrV(<<"B">>), StrV(<<"C">>), StrV(<<"D">>)}
AnswerGiven(q) == Has(q, "answer") /\ q["answer"] # Null

\* C4 as stated: every returned record of type mcq has an answer among the
\* letters A, B, C, D, and A when the source omitted the answer.
C4_AnswerLetter ==
    NormReturned =>
        \A k \in OutRange :
            Out(k)["type"] = StrV(S_mcq) =>
                /\ Has(Out(k), "answer") /\ Out(k)["answer"] \in Letters
                /\ ~Has(Src(k), "answer") => Out(k)["answer"] = StrV(S_A)

\* C4 as amended: every returned record of type mcq has a non-null answer: the
\* letter A when the source omitted the answer or gave null, and otherwise the
\* source's answer unchanged, so a letter A-D whenever the source gave one.
C4_AnswerKeptOrDefault ==
    NormReturned =>
        \A k \in OutRange :
            Out(k)["type"] = StrV(S_mcq) =>
                /\ Has(Out(k), "answer") /\ Out(k)["answer"] # Null
                /\ ~AnswerGiven(Src(k)) => Out(k)["answer"] = StrV(S_A)
                /\ AnswerGiven(Src(k)) => Out(k)["answer"] = Src(k)["answer"]
                /\ (AnswerGiven(Src(k)) /\ Src(k)["answer"] \in Letters)
                       => Out(k)["answer"] \in Letters

\* an mcq record whose source answer was null, returned with answer A
C4_Witness ==
    /\ NormReturned
    /\ \E k \in OutRange :
        /\ Out(k)["type"] = StrV(S_mcq)
        /\ Has(Src(k), "answer") /\ Src(k)["answer"] = Null
        /\ Out(k)["answer"] = StrV(S_A)

\* c is the letter low, in either case
CaseEq(c, low) ==
    c = low \/ \E k \in 1..26 : LowerLetters[k] = low /\ UpperLetters[k] = c
\* s is form, in any case, between two runs of whitespace
IsForm(s, form) ==
    \E lead, trail \in 0..Len(s) :
        /\ lead + Len(form) + trail = Len(s)
        /\ \A k \in 1..lead : s[k] \in Whitespace
        /\ \A k \in (Len(s) - trail + 1)..Len(s) : s[k] \in Whitespace
        /\ \A k \in 1..Len(form) : CaseEq(s[lead + k], form[k])
TrueForm(s) == IsForm(s, S_true) \/ IsForm(s, S_t) \/ IsForm(s, S_yes)

\* C5 as stated: every returned record of type tf has a boolean answer, true
\* exactly when the source answer is one of the forms true, t, yes (trimmed,
\* case-insensitive; a JSON true is counted as the form true here), and false
\* for anything else.
C5_TfTrueForms ==
    NormReturned =>
        \A k \in OutRange :
            Out(k)["type"] = StrV(S_tf) =>
                /\ Has(Out(k), "answer") /\ Out(k)["answer"].t = "bool"
                /\ Out(k)["answer"].b <=>
                       /\ Has(Src(k), "answer")
                       /\ \/ Src(k)["answer"] = BoolV(TRUE)
                          \/ IsStr(Src(k)["answer"]) /\ TrueForm(Src(k)["answer"].s)

\* C5 as amended: every returned record of type tf has a boolean answer; for a
\* string source answer it is true exactly for the forms true, t, yes (trimmed,
\* case-insensitive); for a missing answer it is true; for any other value it
\* is that value's truthiness (null false, numbers true unless zero).
C5_TfAnswer ==
    NormReturned =>
        \A k \in OutRange :
            Out(k)["type"] = StrV(S_tf) =>
                /\ Has(Out(k), "answer") /\ Out(k)["answer"].t = "bool"
                /\ ~Has(Src(k), "answer") => Out(k)["answer"].b
                /\ (Has(Src(k), "answer") /\ IsStr(Src(k)["answer"]))
                       => (Out(k)["answer"].b <=> TrueForm(Src(k)["answer"].s))
                /\ (Has(Src(k), "answer") /\ ~IsStr(Src(k)["answer"]))
                       => (Out(k)["answer"].b <=> Truthy(Src(k)["answer"]))

\* a tf record whose source answer was a padded, capitalised yes
C5_Witness ==
    /\ NormReturned
    /\ \E k \in OutRange :
        /\ Out(k)["type"] = StrV(S_tf)
        /\ Has(Src(k), "answer")
        /\ Src(k)["answer"] = StrV(<<" ", "Y", "e", "s", " ">>)
        /\ Out(k)["answer"] = BoolV(TRUE)

NormAgain == norm_pc = "again"
Again(k) == norm_again.list[k]
\* the ids of the first result are integers increasing in list order
OutIdsIncreasing ==
    /\ \A k \in OutRange : Has(Out(k), "id") /\ IsInt(Out(k)["id"])
    /\ \A i, j \in OutRange :
           i < j => IntVal(Out(i)["id"]) < IntVal(Out(j)["id"])

\* C12: normalizing a list the Normalizer has already returned, under the same
\* requested type, returns without error a list of as many records, each with
\* the same fields and the same field values as before, and with the same ids
\* whenever the ids of the first result are integers increasing in list order.
C12_Idempotent ==
    NormAgain =>
        /\ norm_again.err = ""
        /\ Len(norm_again.list) = Len(norm_out.list)
        /\ \A k \in OutRange :
            /\ DOMAIN Again(k) = DOMAIN Out(k)
            /\ \A key \in DOMAIN Out(k) \ {"id"} : Again(k)[key] = Out(k)[key]
        /\ OutIdsIncreasing => \A k \in OutRange : Again(k)["id"] = Out(k)["id"]

\* a second pass over a tf record whose answer the first pass turned from a
\* string into true and whose id the first pass assigned
C12_Witness ==
    /\ NormAgain
    /\ OutIdsIncreasing
    /\ \E k \in OutRange :
        /\ Out(k)["type"] = StrV(S_tf)
        /\ Has(Src(k), "answer") /\ IsStr(Src(k)["answer"])
        /\ NeedsId(Src(k))
        /\ Out(k)["answer"] = BoolV(TRUE)
        /\ Again(k) = Out(k)

(***************************************************************************)
(* Claims about generate_questions_from_text (SpecGen).                    *)
(***************************************************************************)
TextGiven == StrStrip(source_text) # <<>>

\* the split as the specification words it
ClaimMcqN == IF n \div 2 >= 1 THEN n \div 2 ELSE 1
ClaimTfN == n \div 4
ClaimFullN == n - ClaimMcqN - ClaimTfN
ClaimCalls ==
    SelectSeq(<<[qtype |-> S_mcq, n |-> ClaimMcqN], [qtype |-> S_tf, n |-> ClaimTfN],
                [qtype |-> S_full, n |-> ClaimFullN]>>,
              LAMBDA c : c.n # 0)
IsPrefix(a, b) == Len(a) <= Len(b) /\ SubSeq(b, 1, Len(a)) = a

\* C6: for a mixed request with n >= 1 and non-empty text, the LLM calls are
\* issued in the order mcq, tf, full with the counts max(1, n // 2), n // 4 and
\* the rest, one call per non-zero count and none for a zero count, and the
\* three counts sum to n.
C6_MixedFanOut ==
    (pc # "idle" /\ qtype = S_mixed /\ n >= 1 /\ TextGiven) =>
        /\ IsPrefix(calls, ClaimCalls)
        /\ result.status = "returned" => calls = ClaimCalls
        /\ ClaimMcqN + ClaimTfN + ClaimFullN = n

TypeRank(qt) == IF qt = S_mcq THEN 1 ELSE IF qt = S_tf THEN 2 ELSE 3

\* C7: the list a mixed request returns is the concatenation of the lists of
\* its sub-generations in the order mcq, tf, full, and its records carry the
\* ids 1..k in list order, whatever ids the sub-generations produced.
C7_MixedConcatRenumbered ==
    (impl = "prompts" /\ IsMixed /\ result.status = "returned") =>
        LET cat == Flatten(parts)
        IN  /\ Len(result.list) = Len(cat)
            /\ \A k \in 1..Len(cat) :
                /\ result.list[k]["id"] = IntV(k)
                /\ DOMAIN result.list[k] = DOMAIN cat[k] \cup {"id"}
                /\ \A key \in DOMAIN cat[k] \ {"id"} : result.list[k][key] = cat[k][key]
            /\ Len(parts) = Len(calls)
            /\ \A i, j \in 1..Len(calls) :
                i < j => TypeRank(calls[i].qtype) < TypeRank(calls[j].qtype)

\* three sub-generations returned records, one of them under an id that is not
\* its place in the final list
C7_Witness ==
    /\ impl = "prompts" /\ IsMixed /\ result.status = "returned"
    /\ Len(parts) = 3
    /\ \A j \in 1..3 : Len(parts[j]) > 0
    /\ \E k \in 1..Len(Flatten(parts)) : Flatten(parts)[k]["id"] # IntV(k)

FailureKinds == {"gateway_error", "no_json", "bad_json"}

\* C8: when a sub-generation of a mixed request fails (the gateway, the
\* extraction or the parse), the request ends with that error: no list is
\* returned and no later LLM call is made.
C8_MixedFailurePropagates ==
    (impl = "prompts" /\ IsMixed) =>
        \A i \in 1..Len(replies) :
            replies[i].kind \in FailureKinds =>
                /\ i = Len(replies) /\ Len(calls) = i
                /\ pc = "done"
                /\ result.status = "raised" /\ result.list = <<>>
                /\ result.err =
                       IF replies[i].kind = "gateway_error" THEN "LLMError" ELSE "ValueError"

\* the second of three sub-generations fails after the first returned records
C8_Witness ==
    /\ impl = "prompts" /\ IsMixed
    /\ Len(replies) = 2 /\ replies[2].kind \in FailureKinds
    /\ Len(parts) = 1 /\ Len(parts[1]) > 0
    /\ Len(pending) = 2
    /\ result.status = "raised"

\* C9: for a source text that is empty after trimming, the empty list is
\* returned and the LLM is never called, whatever the qtype.
C9_EmptyTextNoCall ==
    (pc # "idle" /\ ~TextGiven) =>
        /\ calls = <<>>
        /\ pc = "done" => result = Returned(<<>>)

\* qtype, in any case, is none of mcq, tf, full and is not mixed
UnknownType == StrLower(qtype) \notin ConcreteTypes \cup {S_mixed}

\* C13: a request with non-empty text whose qtype is none of mcq, tf, full and
\* is not mixed makes no LLM call, under its own or any other type's template,
\* and ends by raising an error.
C13_UnknownTypeFails ==
    (pc # "idle" /\ TextGiven /\ UnknownType) =>
        /\ calls = <<>>
        /\ pc # "start" => (pc = "done" /\ result.status = "raised")

(***************************************************************************)
(* Claims about the Extractor (SpecExtract).                               *)
(***************************************************************************)
Count(s, a, b, c) == Cardinality({k \in a..b : s[k] = c})
Depth(s, a, b) == Count(s, a, b, "[") - Count(s, a, b, "]")
\* a is the first '[' of s and b the ']' at which its depth is back to zero
FirstArraySpan(s, a, b) ==
    /\ s[a] = "[" /\ \A m \in 1..(a - 1) : s[m] # "["
    /\ a < b /\ s[b] = "]"
    /\ Depth(s, a, b) = 0
    /\ \A m \in a..(b - 1) : Depth(s, a, m) > 0

\* C10: for a text whose first '[' comes back to depth zero, the extractor
\* returns the substring from that '[' through its matching ']', the nested
\* arrays counted by depth and the prose around the span left out.
C10_FirstArraySpan ==
    \A a, b \in 1..Len(text) :
        FirstArraySpan(text, a, b) =>
            /\ ext_root.done => ext_root.s = SubSeq(text, a, b)
            /\ ext_prompts.done =>
                   ext_prompts.err = "" /\ ext_prompts.s = SubSeq(text, a, b)

BraceDepth(s, a, b) == Count(s, a, b, "{") - Count(s, a, b, "}")
\* s[a..b] is one object: a '{' through the '}' at which its depth is back to zero
IsObjectSpan(s, a, b) ==
    /\ a < b /\ s[a] = "{" /\ s[b] = "}"
    /\ BraceDepth(s, a, b) = 0
    /\ \A m \in a..(b - 1) : BraceDepth(s, a, m) > 0
ObjectSpans(s) ==
    {sp \in (1..Len(s)) \X (1..Len(s)) : IsObjectSpan(s, sp[1], sp[2])}
\* the objects that lie in no other object
TopObjects(s) ==
    {sp \in ObjectSpans(s) :
        ~\E o \in ObjectSpans(s) : o[1] < sp[1] /\ sp[2] < o[2]}
InsideTop(s, k) == \E sp \in TopObjects(s) : sp[1] <= k /\ k <= sp[2]
\* the commas after the object sp and before the next top-level object
CommasAfter(s, sp) ==
    {k \in (sp[2] + 1)..Len(s) :
        /\ s[k] = ","
        /\ ~\E o \in TopObjects(s) : sp[2] < o[1] /\ o[1] < k}
IsLastObject(s, sp) == ~\E o \in TopObjects(s) : sp[2] < o[1]
\* s is one or more top-level objects, one comma between each two of them,
\* with nothing but whitespace elsewhere, and no brackets around them
IsObjectSequence(s) ==
    /\ TopObjects(s) # {}
    /\ \A k \in 1..Len(s) : ~InsideTop(s, k) => s[k] \in Whitespace \cup {","}
    /\ \A k \in 1..Len(s) : s[k] = "," /\ ~InsideTop(s, k)
           => \E sp \in TopObjects(s) : k \in CommasAfter(s, sp)
    /\ \A sp \in TopObjects(s) :
           Cardinality(CommasAfter(s, sp)) = IF IsLastObject(s, sp) THEN 0 ELSE 1
\* the objects of spans in text order, a comma between each two
RECURSIVE ObjectsJoined(_, _)
ObjectsJoined(s, spans) ==
    IF spans = {} THEN <<>>
    ELSE LET first == CHOOSE sp \in spans : \A o \in spans : sp[1] <= o[1]
         IN  SubSeq(s, first[1], first[2])
                 \o (IF spans = {first} THEN <<>> ELSE <<",">>)
                 \o ObjectsJoined(s, spans \ {first})

\* C11: for a text made of two or more top-level objects separated by commas
\* (whitespace allowed around them) and not enclosed in brackets, the extractor
\* of src/generator.py returns '[' obj1 ',' obj2 ',' ... ']' with every one of
\* those objects in order; for a single top-level object it returns that
\* object's substring alone.
C11_ObjectSequence ==
    (ext_root.done /\ IsObjectSequence(text)) =>
        ext_root.s =
            IF Cardinality(TopObjects(text)) >= 2
            THEN <<"[">> \o ObjectsJoined(text, TopObjects(text)) \o <<"]">>
            ELSE ObjectsJoined(text, TopObjects(text))
====
